---------------------------- MODULE Spec2Model ----------------------------
(***************************************************************************)
(* A model of src/app.py: the Streamlit chat application with a knowledge  *)
(* base, a rule-based fallback mode and file-based transcripts.            *)
(*                                                                         *)
(* Streamlit re-runs main() from top to bottom once per widget event, so   *)
(* every action below is one whole run of main() for one event: a chat     *)
(* input, or one of the buttons of handle_sidebar() and main().  The state *)
(* is st.session_state, the chat_history_*.json files of the working       *)
(* directory, and what the last run asked of the Completion Client and     *)
(* rendered with st.warning / st.error.                                    *)
(*                                                                         *)
(* A text (a Python str) is a sequence of pieces.  A piece is a one        *)
(* character string wherever the program looks inside the text (user       *)
(* input, error messages, file names); the fixed sentences the program     *)
(* only passes along are kept as one piece each.                           *)
(***************************************************************************)
EXTENDS Integers, Sequences, FiniteSets, TLC

VARIABLES
    chat_history,   \* st.session_state.chat_history: sequence of messages
    model_name,     \* st.session_state.model_name
    personality,    \* st.session_state.personality
    fallback_mode,  \* st.session_state.fallback_mode
    vectorstore,    \* st.session_state.vectorstore: None or the built index
    conversation,   \* st.session_state.conversation: None or the chain
    files,          \* chat_history_<t>.json files: t -> file content
    clock,          \* int(time.time())
    uploader,       \* uploaded_files: the files the st.file_uploader widget holds
    event,          \* the widget event the last run of main() handled
    completion,     \* the Completion Client call of the last run, or None
    shown           \* what the last run rendered with st.warning / st.error

vars == <<chat_history, model_name, personality, fallback_mode, vectorstore,
          conversation, files, clock, uploader, event, completion, shown>>

\* None, where the other values are records
None == [none |-> TRUE]

-----------------------------------------------------------------------------
(* Python str operations *)

UpperCase == <<"A", "B", "C", "D", "E", "F", "G", "H", "I", "J", "K", "L", "M",
               "N", "O", "P", "Q", "R", "S", "T", "U", "V", "W", "X", "Y", "Z">>

LowerCase == <<"a", "b", "c", "d", "e", "f", "g", "h", "i", "j", "k", "l", "m",
               "n", "o", "p", "q", "r", "s", "t", "u", "v", "w", "x", "y", "z">>

\* str.lower(), one character
LowerChar(c) ==
    IF \E i \in 1..Len(UpperCase) : UpperCase[i] = c
    THEN LowerCase[CHOOSE i \in 1..Len(UpperCase) : UpperCase[i] = c]
    ELSE c

\* str.lower()
Lower(s) == [i \in 1..Len(s) |-> LowerChar(s[i])]

\* sub in s
Contains(sub, s) ==
    \E i \in 0..(Len(s) - Len(sub)) : SubSeq(s, i + 1, i + Len(sub)) = sub

\* s.endswith(suffix)
EndsWith(s, suffix) ==
    /\ Len(suffix) <= Len(s)
    /\ SubSeq(s, Len(s) - Len(suffix) + 1, Len(s)) = suffix

\* any(term in s for term in terms)
AnyIn(terms, s) == \E term \in terms : Contains(term, s)

-----------------------------------------------------------------------------
(* get_rule_based_response *)

Greetings == { <<"h", "e", "l", "l", "o">>, <<"h", "i">>, <<"h", "e", "y">> }
HowAreYou == <<"h", "o", "w", " ", "a", "r", "e", " ", "y", "o", "u">>
Help      == <<"h", "e", "l", "p">>
Thanks    == { <<"t", "h", "a", "n", "k">>, <<"t", "h", "a", "n", "k", "s">>,
               <<"a", "p", "p", "r", "e", "c", "i", "a", "t", "e">> }
QWords    == { <<"w", "h", "a", "t", " ", "i", "s">>, <<"w", "h", "o", " ", "i", "s">>,
               <<"h", "o", "w", " ", "t", "o">>, <<"w", "h", "e", "r", "e">>,
               <<"w", "h", "e", "n">>, <<"w", "h", "y">> }
QMark     == <<"?">>

GreetingResponse == <<"Hello! I'm currently running in fallback mode. How can I help you?">>
HowAreYouResponse == <<"I'm doing well, though I'm currently operating in a limited fallback mode.">>
HelpResponse == <<"I'm in fallback mode right now, but I'd be happy to help as best I can.">>
ThanksResponse == <<"You're welcome! Happy to assist even in fallback mode.">>
QWordResponse(user_input) ==
    <<"That's an interesting question about '">> \o user_input \o
    <<"'. When I'm back to full functionality, I'll provide a more detailed answer.">>
QMarkResponse == <<"That's a good question. Unfortunately, I'm currently in fallback mode and can't provide a complete answer.">>
DefaultResponse == <<"I'm in fallback mode due to API limitations. I can only provide basic responses at the moment.">>

\* The rules tried in the order greeting, gratitude, help request, "how are
\* you", question patterns, default.
ClaimedOrderResponse(user_input) ==
    LET user_input_lower == Lower(user_input) IN
    IF AnyIn(Greetings, user_input_lower) THEN GreetingResponse
    ELSE IF AnyIn(Thanks, user_input_lower) THEN ThanksResponse
    ELSE IF Contains(Help, user_input_lower) THEN HelpResponse
    ELSE IF Contains(HowAreYou, user_input_lower) THEN HowAreYouResponse
    ELSE IF AnyIn(QWords, user_input_lower) THEN QWordResponse(user_input)
    ELSE IF Contains(QMark, user_input) THEN QMarkResponse
    ELSE DefaultResponse

CaseSensitiveResponse(user_input) ==
    IF AnyIn(Greetings, user_input) THEN GreetingResponse
    ELSE IF Contains(HowAreYou, user_input) THEN HowAreYouResponse
    ELSE IF Contains(Help, user_input) THEN HelpResponse
    ELSE IF AnyIn(Thanks, user_input) THEN ThanksResponse
    ELSE IF AnyIn(QWords, user_input) THEN QWordResponse(user_input)
    ELSE IF Contains(QMark, user_input) THEN QMarkResponse
    ELSE DefaultResponse

NoGreetingResponse(user_input) ==
    LET user_input_lower == Lower(user_input) IN
    IF Contains(HowAreYou, user_input_lower) THEN HowAreYouResponse
    ELSE IF Contains(Help, user_input_lower) THEN HelpResponse
    ELSE IF AnyIn(Thanks, user_input_lower) THEN ThanksResponse
    ELSE IF AnyIn(QWords, user_input_lower) THEN QWordResponse(user_input)
    ELSE IF Contains(QMark, user_input) THEN QMarkResponse
    ELSE DefaultResponse

\* The if / elif chain of the function, in its order.
get_rule_based_response(user_input) ==
    LET user_input_lower == Lower(user_input) IN
    IF AnyIn(Greetings, user_input_lower) THEN GreetingResponse
    ELSE IF Contains(HowAreYou, user_input_lower) THEN HowAreYouResponse
    ELSE IF Contains(Help, user_input_lower) THEN HelpResponse
    ELSE IF AnyIn(Thanks, user_input_lower) THEN ThanksResponse
    ELSE IF AnyIn(QWords, user_input_lower) THEN QWordResponse(user_input)
    ELSE IF Contains(QMark, user_input) THEN QMarkResponse
    ELSE DefaultResponse

-----------------------------------------------------------------------------
(* Messages and the transcript files: save_chat_history, load_chat_history *)

HumanMessage(content) == [type |-> "HumanMessage", content |-> content]
AIMessage(content)    == [type |-> "AIMessage", content |-> content]

\* A character outside ASCII, and its \uXXXX escape.
EAcute == "U+00E9"
EAcuteHex == <<"0", "0", "e", "9">>

\* json.dump of one character of a str (ensure_ascii is the default)
JsonEscape(c) ==
    CASE c = "\"" -> <<"\\", "\"">>
      [] c = "\\" -> <<"\\", "\\">>
      [] c = "\n" -> <<"\\", "n">>
      [] c = EAcute -> <<"\\", "u">> \o EAcuteHex
      [] OTHER -> <<c>>

RECURSIVE JsonEncodeString(_)
JsonEncodeString(s) ==
    IF s = <<>> THEN <<>> ELSE JsonEscape(Head(s)) \o JsonEncodeString(Tail(s))

RECURSIVE JsonDecodeString(_)
JsonDecodeString(e) ==
    IF e = <<>> THEN <<>>
    ELSE IF Head(e) = "\\"
    THEN IF e[2] = "u"
         THEN <<IF SubSeq(e, 3, 6) = EAcuteHex THEN EAcute ELSE "?">>
              \o JsonDecodeString(SubSeq(e, 7, Len(e)))
         ELSE <<IF e[2] = "n" THEN "\n" ELSE e[2]>>
              \o JsonDecodeString(SubSeq(e, 3, Len(e)))
    ELSE <<Head(e)>> \o JsonDecodeString(Tail(e))

SerializeAssistant(msg, current_time) ==
    IF msg.type = "HumanMessage"
    THEN <<[role |-> "human", content |-> msg.content, timestamp |-> current_time]>>
    ELSE <<[role |-> "assistant", content |-> msg.content, timestamp |-> current_time]>>

\* The dict appended for one message, lines 53-56.
SerializeMessage(msg, current_time) ==
    IF msg.type = "HumanMessage"
    THEN <<[role |-> "human", content |-> msg.content, timestamp |-> current_time]>>
    ELSE IF msg.type = "AIMessage"
    THEN <<[role |-> "ai", content |-> msg.content, timestamp |-> current_time]>>
    ELSE <<>>

RECURSIVE serializable_history(_, _)
serializable_history(history, current_time) ==
    IF history = <<>> THEN <<>>
    ELSE SerializeMessage(Head(history), current_time)
         \o serializable_history(Tail(history), current_time)

\* json.dump(serializable_history, f): the text of the file, string by string
JsonDump(serialized) ==
    [json |-> [i \in 1..Len(serialized) |->
                  [role |-> serialized[i].role,
                   content |-> JsonEncodeString(serialized[i].content),
                   timestamp |-> serialized[i].timestamp]]]

\* json.load(f)
JsonLoad(text) ==
    [i \in 1..Len(text.json) |->
        [role |-> text.json[i].role,
         content |-> JsonDecodeString(text.json[i].content),
         timestamp |-> text.json[i].timestamp]]

\* A file that json.dump did not finish writing.
Corrupt == [truncated |-> TRUE]

IoOutcomes == {"ok", "open_fails", "dump_fails"}

CouldNotSave == [level |-> "warning", text |-> "Could not save chat history", about |-> <<>>]
CouldNotLoad == [level |-> "warning", text |-> "Could not load chat history", about |-> <<>>]

\* save_chat_history(): the files after it, the file name it returns (<<>>
\* for None) and the warning it shows.  io is what the file system does.
save_chat_history(history, io) ==
    IF history = <<>>
    THEN [files |-> files, filename |-> <<>>, shown |-> {}]
    ELSE LET text == JsonDump(serializable_history(history, clock)) IN
         CASE io = "ok" ->
                [files |-> [t \in DOMAIN files \cup {clock} |->
                                IF t = clock THEN text ELSE files[t]],
                 filename |-> <<clock>>, shown |-> {}]
           [] io = "open_fails" ->
                [files |-> files, filename |-> <<>>, shown |-> {CouldNotSave}]
           [] OTHER ->
                [files |-> [t \in DOMAIN files \cup {clock} |->
                                IF t = clock THEN Corrupt ELSE files[t]],
                 filename |-> <<>>, shown |-> {CouldNotSave}]

\* The message built for one dict of the file, lines 84-88.
DeserializeMessage(msg) ==
    IF msg.role = "human" THEN <<HumanMessage(msg.content)>>
    ELSE IF msg.role = "ai" THEN <<AIMessage(msg.content)>>
    ELSE <<>>

RECURSIVE DeserializeHistory(_)
DeserializeHistory(serialized_history) ==
    IF serialized_history = <<>> THEN <<>>
    ELSE DeserializeMessage(Head(serialized_history))
         \o DeserializeHistory(Tail(serialized_history))

\* load_chat_history(filename), given the content of the file
load_chat_history(content) ==
    IF content = Corrupt THEN <<>> ELSE DeserializeHistory(JsonLoad(content))

-----------------------------------------------------------------------------
(* process_documents *)

Pdf  == <<".", "p", "d", "f">>
Txt  == <<".", "t", "x", "t">>
Csv  == <<".", "c", "s", "v">>
Docx == <<".", "d", "o", "c", "x">>
Doc  == <<".", "d", "o", "c">>

HasLoaderIgnoringCase(name) ==
    \E extension \in {Pdf, Txt, Csv, Docx, Doc} : EndsWith(Lower(name), extension)

\* A loader is chosen for the file name, lines 115-122.
HasLoader(name) ==
    \/ EndsWith(name, Pdf)
    \/ EndsWith(name, Txt)
    \/ EndsWith(name, Csv)
    \/ EndsWith(name, Docx) \/ EndsWith(name, Doc)

Unsupported(name) ==
    [level |-> "warning", text |-> "Unsupported file type. Skipping.", about |-> name]
ErrorLoading(name) ==
    [level |-> "error", text |-> "Error loading", about |-> name]
ErrorCreatingVectorDatabase ==
    [level |-> "error", text |-> "Error creating vector database", about |-> <<>>]

\* The body of the for loop for the i-th file and the files after it:
\* the documents collected and the messages shown.  loads is the set of
\* the files whose loader.load() returns; it raises for the others.
RECURSIVE LoadFiles(_, _, _)
LoadFiles(uploaded_files, loads, i) ==
    IF i > Len(uploaded_files) THEN [documents |-> <<>>, shown |-> {}]
    ELSE LET name == uploaded_files[i]
             rest == LoadFiles(uploaded_files, loads, i + 1)
         IN  IF ~HasLoader(name)
             THEN [documents |-> rest.documents,
                   shown |-> {Unsupported(name)} \cup rest.shown]
             ELSE IF i \in loads
             THEN [documents |-> <<name>> \o rest.documents, shown |-> rest.shown]
             ELSE [documents |-> rest.documents,
                   shown |-> {ErrorLoading(name)} \cup rest.shown]

\* A process_documents that hands out what was embedded before the failure.
PartialStoreOnFailure(uploaded_files, loads, embeds) ==
    IF uploaded_files = <<>> THEN [vectorstore |-> None, shown |-> {}]
    ELSE LET loaded == LoadFiles(uploaded_files, loads, 1) IN
         IF loaded.documents = <<>>
         THEN [vectorstore |-> None, shown |-> loaded.shown]
         ELSE IF embeds
         THEN [vectorstore |-> [documents |-> loaded.documents], shown |-> loaded.shown]
         ELSE [vectorstore |-> [documents |-> SubSeq(loaded.documents, 1, 1)],
               shown |-> loaded.shown \cup {ErrorCreatingVectorDatabase}]

\* process_documents(uploaded_files): the vector store it returns, or None,
\* and the messages it shows.  embeds: FAISS.from_documents returns.
process_documents(uploaded_files, loads, embeds) ==
    IF uploaded_files = <<>> THEN [vectorstore |-> None, shown |-> {}]
    ELSE LET loaded == LoadFiles(uploaded_files, loads, 1) IN
         IF loaded.documents = <<>>
         THEN [vectorstore |-> None, shown |-> loaded.shown]
         ELSE IF embeds
         THEN [vectorstore |-> [documents |-> loaded.documents], shown |-> loaded.shown]
         ELSE [vectorstore |-> None,
               shown |-> loaded.shown \cup {ErrorCreatingVectorDatabase}]

-----------------------------------------------------------------------------
(* initialize_rag_conversation and the Completion Client *)

Models == {"gpt-3.5-turbo", "gpt-4o"}
Personalities ==
    {"Helpful Assistant", "Friendly Teacher", "Creative Writer", "Technical Expert"}

\* RAGConversationChain.predict reads st.session_state.personality when it
\* is called (line 223); the plain chain has the system message of the
\* personality it was built with in its prompt template (lines 247-249).
SessionPersonality == "st.session_state.personality"

Chain(model, persona, store) ==
    [model_name |-> model,
     personality |-> IF store # None THEN SessionPersonality ELSE persona,
     vectorstore |-> store]

ErrorInitializing ==
    [level |-> "error", text |-> "Error initializing conversation", about |-> <<>>]

\* initialize_rag_conversation: every value it can return.  It catches
\* every Exception of the construction itself and returns None then.
initialize_rag_conversation(model, persona, store) ==
    {Chain(model, persona, store), None}

InitShown(chain) == IF chain = None THEN {ErrorInitializing} ELSE {}

AttributeError ==
    <<"'", "N", "o", "n", "e", "T", "y", "p", "e", "'", " ", "o", "b", "j", "e", "c", "t",
      " ", "h", "a", "s", " ", "n", "o", " ", "a", "t", "t", "r", "i", "b", "u", "t", "e",
      " ", "'", "p", "r", "e", "d", "i", "c", "t", "'">>

\* st.session_state.conversation.predict(input=user_input): the call that
\* reaches the Completion Client, if any, whether it returns, and the text
\* returned or raised.  outcome is the Completion Client's answer.
Predict(user_input, outcome) ==
    IF conversation = None
    THEN [completion |-> None, ok |-> FALSE, text |-> AttributeError]
    ELSE [completion |->
              [model_name |-> conversation.model_name,
               personality |-> IF conversation.personality = SessionPersonality
                               THEN personality ELSE conversation.personality,
               vectorstore |-> conversation.vectorstore,
               input |-> user_input,
               ok |-> outcome.ok,
               text |-> outcome.text],
          ok |-> outcome.ok, text |-> outcome.text]

QuotaTerms == { <<"q", "u", "o", "t", "a">>, <<"r", "a", "t", "e">>, <<"4", "2", "9">>,
                <<"i", "n", "s", "u", "f", "f", "i", "c", "i", "e", "n", "t">> }

NeverQuotaOrRate(api_error) == FALSE

\* line 441 and the condition of line 444
IsQuotaOrRate(api_error) == AnyIn(QuotaTerms, Lower(api_error))

ErrorResponse == <<"I encountered an error processing your request. Please try again.">>

UsingFallback ==
    [level |-> "warning", text |-> "Using fallback mode due to API limitations", about |-> <<>>]
ApiError(api_error) == [level |-> "error", text |-> "API error", about |-> api_error]

-----------------------------------------------------------------------------
(* process_user_message *)

DegradeOnAnyError(user_input, api_error) ==
    [fallback_mode |-> TRUE,
     reply |-> get_rule_based_response(user_input),
     shown |-> {UsingFallback}]

\* The except branch of lines 440-457 for the exception text api_error:
\* the fallback mode, the reply and the messages shown after it.
HandleApiError(user_input, api_error) ==
    IF IsQuotaOrRate(api_error)
    THEN [fallback_mode |-> TRUE,
          reply |-> get_rule_based_response(user_input),
          shown |-> {UsingFallback}]
    ELSE [fallback_mode |-> fallback_mode,
          reply |-> ErrorResponse,
          shown |-> {ApiError(api_error)}]

AlwaysPredict == FALSE

\* The condition of line 427.
RuleBased == fallback_mode

\* process_user_message(user_input).  outcome is the Completion Client's
\* answer if it is asked, io what the file system does if the chat is saved.
process_user_message(user_input, outcome, io) ==
    LET history == Append(chat_history, HumanMessage(user_input)) IN
    /\ event' = "chat_input"
    /\ UNCHANGED <<model_name, personality, vectorstore, conversation, clock, uploader>>
    /\ IF RuleBased
       THEN /\ chat_history' =
                   Append(history, AIMessage(get_rule_based_response(user_input)))
            /\ completion' = None
            /\ shown' = {}
            /\ UNCHANGED <<fallback_mode, files>>
       ELSE LET api == Predict(user_input, outcome) IN
            /\ completion' = api.completion
            /\ IF api.ok
               THEN LET answered == Append(history, AIMessage(api.text))
                        saved == save_chat_history(answered, io)
                    IN  /\ chat_history' = answered
                        /\ files' = saved.files
                        /\ shown' = saved.shown
                        /\ UNCHANGED fallback_mode
               ELSE LET handled == HandleApiError(user_input, api.text) IN
                    /\ chat_history' = Append(history, AIMessage(handled.reply))
                    /\ fallback_mode' = handled.fallback_mode
                    /\ shown' = handled.shown
                    /\ UNCHANGED files

-----------------------------------------------------------------------------
(* handle_sidebar: one button each *)

\* The user puts files into the st.file_uploader widget, lines 292-294.
ChooseFiles(chosen) ==
    /\ uploader' = chosen
    /\ event' = "file_uploader"
    /\ completion' = None
    /\ shown' = {}
    /\ UNCHANGED <<chat_history, model_name, personality, fallback_mode, vectorstore,
                   conversation, files, clock>>

\* "Process Documents", lines 296-308
ProcessDocuments(loads, embeds) ==
    LET processed == process_documents(uploader, loads, embeds) IN
    /\ uploader # <<>>
    /\ event' = "Process Documents"
    /\ completion' = None
    /\ IF processed.vectorstore # None
       THEN /\ vectorstore' = processed.vectorstore
            /\ \E chain \in initialize_rag_conversation(
                                model_name, personality, processed.vectorstore) :
                  /\ conversation' = chain
                  /\ shown' = processed.shown \cup InitShown(chain)
       ELSE /\ shown' = processed.shown
            /\ UNCHANGED <<vectorstore, conversation>>
    /\ UNCHANGED <<chat_history, model_name, personality, fallback_mode, files, clock, uploader>>

\* "Clear Knowledge Base", lines 311-320
ClearKnowledgeBase ==
    /\ vectorstore # None
    /\ event' = "Clear Knowledge Base"
    /\ completion' = None
    /\ vectorstore' = None
    /\ \E chain \in initialize_rag_conversation(model_name, personality, None) :
          /\ conversation' = chain
          /\ shown' = InitShown(chain)
    /\ UNCHANGED <<chat_history, model_name, personality, fallback_mode, files, clock, uploader>>

\* "Try API Again", lines 326-328
TryApiAgain ==
    /\ fallback_mode
    /\ event' = "Try API Again"
    /\ completion' = None
    /\ shown' = {}
    /\ fallback_mode' = FALSE
    /\ UNCHANGED <<chat_history, model_name, personality, vectorstore, conversation,
                   files, clock, uploader>>

\* An "Apply Model Change" that leaves the fallback mode and builds the chain.
ApplyModelChangeRecovers(selected) ==
    /\ event' = "Apply Model Change"
    /\ completion' = None
    /\ model_name' = selected
    /\ fallback_mode' = FALSE
    /\ \E chain \in initialize_rag_conversation(selected, personality, vectorstore) :
          /\ conversation' = chain
          /\ shown' = InitShown(chain)
    /\ UNCHANGED <<chat_history, personality, vectorstore, files, clock, uploader>>

\* "Apply Model Change" with the model selected, lines 342-363
ApplyModelChange(selected) ==
    /\ event' = "Apply Model Change"
    /\ completion' = None
    /\ model_name' = selected
    /\ IF ~fallback_mode
       THEN \E chain \in initialize_rag_conversation(selected, personality, vectorstore) :
               /\ conversation' = chain
               /\ shown' = InitShown(chain)
       ELSE /\ shown' = {}
            /\ UNCHANGED conversation
    /\ UNCHANGED <<chat_history, personality, fallback_mode, vectorstore, files, clock, uploader>>

\* "Apply Personality Change" with the personality selected, lines 374-393
ApplyPersonalityChange(selected) ==
    /\ event' = "Apply Personality Change"
    /\ completion' = None
    /\ personality' = selected
    /\ IF ~fallback_mode
       THEN \E chain \in initialize_rag_conversation(model_name, selected, vectorstore) :
               /\ conversation' = chain
               /\ shown' = InitShown(chain)
       ELSE /\ shown' = {}
            /\ UNCHANGED conversation
    /\ UNCHANGED <<chat_history, model_name, fallback_mode, vectorstore, files, clock, uploader>>

\* "Save Current Chat", lines 399-402
SaveCurrentChat(io) ==
    LET saved == save_chat_history(chat_history, io) IN
    /\ event' = "Save Current Chat"
    /\ completion' = None
    /\ files' = saved.files
    /\ shown' = saved.shown
    /\ UNCHANGED <<chat_history, model_name, personality, fallback_mode, vectorstore,
                   conversation, clock, uploader>>

LoadedEvenIfEmpty(loaded_history) == loaded_history

\* lines 410-411: the chat history after the load
LoadedInto(loaded_history) ==
    IF loaded_history # <<>> THEN loaded_history ELSE chat_history

\* "Load Selected Chat" with the file selected, lines 405-413
LoadSelectedChat(selected_file) ==
    /\ selected_file \in DOMAIN files
    /\ event' = "Load Selected Chat"
    /\ completion' = None
    /\ shown' = IF files[selected_file] = Corrupt THEN {CouldNotLoad} ELSE {}
    /\ chat_history' = LoadedInto(load_chat_history(files[selected_file]))
    /\ UNCHANGED <<model_name, personality, fallback_mode, vectorstore, conversation,
                   files, clock, uploader>>

-----------------------------------------------------------------------------
(* main *)

KeepFallbackMode == fallback_mode

\* line 517
FallbackModeAfterClear == FALSE

\* "Clear Chat History", lines 514-537.  initialize_rag_conversation raises
\* no Exception, so the handler of lines 532-535 does not run.
ClearChatHistory ==
    /\ event' = "Clear Chat History"
    /\ completion' = None
    /\ chat_history' = <<>>
    /\ fallback_mode' = FallbackModeAfterClear
    /\ \E chain \in initialize_rag_conversation(model_name, personality, vectorstore) :
          /\ conversation' = chain
          /\ shown' = InitShown(chain)
    /\ UNCHANGED <<model_name, personality, vectorstore, files, clock, uploader>>

\* The first run of main(), lines 465-492, in a directory without transcripts.
Init ==
    /\ chat_history = <<>>
    /\ model_name = "gpt-3.5-turbo"
    /\ personality = "Helpful Assistant"
    /\ vectorstore = None
    /\ conversation \in initialize_rag_conversation("gpt-3.5-turbo", "Helpful Assistant", None)
    /\ fallback_mode = (conversation = None)
    /\ files = <<>>
    /\ clock = 0
    /\ uploader = <<>>
    /\ event = "start"
    /\ completion = None
    /\ shown = InitShown(conversation)

-----------------------------------------------------------------------------
(* The session: every event, with small inputs.  The runs follow each other
   within one second of time.time(), so that one transcript file is written
   over; SpecTranscript lets the clock move on. *)

MaxTurnsAll == 1

Hello == <<"h", "e", "l", "l", "o">>
UserTexts == {Hello}

RateLimitReached ==
    <<"R", "a", "t", "e", " ", "l", "i", "m", "i", "t", " ", "r", "e", "a", "c", "h", "e", "d">>
ConnectionError ==
    <<"C", "o", "n", "n", "e", "c", "t", "i", "o", "n", " ", "e", "r", "r", "o", "r", ".">>
ApiOutcomes ==
    {[ok |-> TRUE, text |-> <<"Sure.">>]}
    \cup {[ok |-> FALSE, text |-> e] : e \in {RateLimitReached, ConnectionError}}

NotesTxt  == <<"n", "o", "t", "e", "s", ".", "t", "x", "t">>
Uploads == { <<>>, <<NotesTxt>> }

SelectedPersonalities == {"Helpful Assistant", "Technical Expert"}

ChatInput ==
    /\ Len(chat_history) < 2 * MaxTurnsAll
    /\ \E user_input \in UserTexts, outcome \in ApiOutcomes, io \in IoOutcomes :
          process_user_message(user_input, outcome, io)

Upload == \E chosen \in Uploads : ChooseFiles(chosen)

Process ==
    \E loads \in SUBSET (1..Len(uploader)), embeds \in BOOLEAN :
       ProcessDocuments(loads, embeds)

SelectModel == \E selected \in Models : ApplyModelChange(selected)

SelectPersonality == \E selected \in SelectedPersonalities : ApplyPersonalityChange(selected)

Save == \E io \in IoOutcomes : SaveCurrentChat(io)

Load == \E selected_file \in DOMAIN files : LoadSelectedChat(selected_file)

Next ==
    \/ ChatInput
    \/ Upload
    \/ Process
    \/ ClearKnowledgeBase
    \/ TryApiAgain
    \/ SelectModel
    \/ SelectPersonality
    \/ Save
    \/ Load
    \/ ClearChatHistory

Spec == Init /\ [][Next]_vars

-----------------------------------------------------------------------------
(* The chat alone: several turns, the fallback mode, the model and the
   personality *)

MaxTurns == 2

SessionChatInput ==
    /\ Len(chat_history) < 2 * MaxTurns
    /\ \E user_input \in UserTexts, outcome \in ApiOutcomes, io \in IoOutcomes :
          process_user_message(user_input, outcome, io)

NextSession ==
    \/ SessionChatInput
    \/ TryApiAgain
    \/ SelectModel
    \/ SelectPersonality
    \/ ClearChatHistory

SpecSession == Init /\ [][NextSession]_vars

-----------------------------------------------------------------------------
(* The first message of a chat, for many texts *)

MaxFragments == 2

Fragments ==
    Greetings \cup Thanks \cup
    { HowAreYou, Help, QMark, <<"w", "h", "y">>, <<"w", "h", "a", "t", " ", "i", "s">>,
      <<"H", "E", "L", "P">>, <<"o", "k">>, <<" ">> }

RECURSIVE Compositions(_)
Compositions(n) ==
    IF n = 0 THEN {<<>>}
    ELSE LET shorter == Compositions(n - 1) IN
         shorter \cup {s \o f : s \in shorter, f \in Fragments}

\* st.chat_input gives no empty text (line 510)
ComposedTexts == Compositions(MaxFragments) \ {<<>>}

ErrorCode429 ==
    <<"E", "r", "r", "o", "r", " ", "c", "o", "d", "e", ":", " ", "4", "2", "9">>
MoreApiOutcomes ==
    ApiOutcomes \cup {[ok |-> FALSE, text |-> ErrorCode429]}

FirstChatInput ==
    /\ chat_history = <<>>
    /\ \E user_input \in ComposedTexts, outcome \in MoreApiOutcomes, io \in IoOutcomes :
          process_user_message(user_input, outcome, io)

NextFirst == FirstChatInput \/ TryApiAgain

SpecFirst == Init /\ [][NextFirst]_vars

-----------------------------------------------------------------------------
(* Transcripts: saving and loading chats of many contents *)

MaxChats == 1

SayHi     == <<"s", "a", "y", " ", "\"", "h", "i", "\"">>
BackSlash == <<"a", "\\", "b">>
TwoLines  == <<"a", "\n", "b">>
EscapedN  == <<"a", "\\", "n", "b">>
Cafe      == <<"c", "a", "f", EAcute>>
EscapedU  == <<"\\", "u", "0", "0", "e", "9">>
Contents  == {Hello, SayHi, BackSlash, TwoLines, EscapedN, Cafe, EscapedU}

\* chats of up to n turns: a user message and the reply to it
RECURSIVE Chats(_)
Chats(n) ==
    IF n = 0 THEN {<<>>}
    ELSE LET shorter == Chats(n - 1) IN
         shorter \cup {chat \o <<HumanMessage(u), AIMessage(a)>> :
                          chat \in shorter, u \in Contents, a \in Contents}

InitTranscript ==
    /\ chat_history \in Chats(MaxChats)
    /\ model_name = "gpt-3.5-turbo"
    /\ personality = "Helpful Assistant"
    /\ vectorstore = None
    /\ conversation = Chain("gpt-3.5-turbo", "Helpful Assistant", None)
    /\ fallback_mode = FALSE
    /\ files = <<>>
    /\ clock = 0
    /\ uploader = <<>>
    /\ event = "start"
    /\ completion = None
    /\ shown = {}

MaxClock == 1

\* time.time() moves on between two runs
Tick ==
    /\ clock < MaxClock
    /\ clock' = clock + 1
    /\ UNCHANGED <<chat_history, model_name, personality, fallback_mode, vectorstore,
                   conversation, files, uploader, event, completion, shown>>

NextTranscript == Save \/ Load \/ Tick

SpecTranscript == InitTranscript /\ [][NextTranscript]_vars

-----------------------------------------------------------------------------
(* The knowledge base: uploads of many file names *)

MaxFiles == 2

ReportPDF == <<"R", "E", "P", "O", "R", "T", ".", "P", "D", "F">>
ReadmeMd  == <<"r", "e", "a", "d", "m", "e", ".", "m", "d">>
OldDoc    == <<"o", "l", "d", ".", "d", "o", "c">>
FileNames == {NotesTxt, ReportPDF, ReadmeMd, OldDoc}

RECURSIVE FileLists(_)
FileLists(n) ==
    IF n = 0 THEN {<<>>}
    ELSE LET shorter == FileLists(n - 1) IN
         shorter \cup {list \o <<name>> : list \in shorter, name \in FileNames}

UploadMany == \E chosen \in FileLists(MaxFiles) : ChooseFiles(chosen)

NextDocs == UploadMany \/ Process \/ ClearKnowledgeBase

SpecDocs == Init /\ [][NextDocs]_vars

-----------------------------------------------------------------------------
(* The knowledge base within the session: the vector store and the chain
   built on it, through uploads, switches, the fallback mode and the reset *)

IndexUploads ==
    { <<>>, <<NotesTxt>>, <<NotesTxt, OldDoc>>, <<ReadmeMd, NotesTxt>> }

UploadForIndex == \E chosen \in IndexUploads : ChooseFiles(chosen)

NextIndex ==
    \/ UploadForIndex
    \/ Process
    \/ ClearKnowledgeBase
    \/ ChatInput
    \/ TryApiAgain
    \/ SelectModel
    \/ SelectPersonality
    \/ ClearChatHistory

SpecIndex == Init /\ [][NextIndex]_vars

-----------------------------------------------------------------------------
(* Properties *)

IsPrefix(a, b) == Len(a) <= Len(b) /\ SubSeq(b, 1, Len(a)) = a

\* The messages a step appends to the chat history.
NewMessages == SubSeq(chat_history', Len(chat_history) + 1, Len(chat_history'))

\* A step that is a chat input: process_user_message always appends.
SubmitStep == event' = "chat_input" /\ chat_history' # chat_history

\* The error text holds "quota", "rate", "429" or "insufficient" in any case.
QuotaRateText(text) == \E term \in QuotaTerms : Contains(term, Lower(text))

LastHuman == chat_history[Len(chat_history) - 1]
LastAI == chat_history[Len(chat_history)]

\* C1: a chat input handled while fallback_mode is true makes no call of the
\* Completion Client, and the reply appended is the rule-based response to
\* the text typed.
C1_DegradedSubmitNeverPredicts ==
    [][(fallback_mode /\ SubmitStep) =>
          /\ completion' = None
          /\ \E user_input \in UserTexts :
                NewMessages[2] = AIMessage(get_rule_based_response(user_input))
      ]_vars

\* A chat input was handled in fallback mode although a chain was there to ask.
C1_Witness ==
    /\ event = "chat_input"
    /\ fallback_mode
    /\ conversation # None
    /\ completion = None
    /\ Len(chat_history) = 4

\* C2: when the Completion Client, asked outside the fallback mode, raises an
\* error whose text is of the quota / rate kind, the fallback mode is on
\* afterwards and the chat history has grown by the user's message and the
\* rule-based response to that same text.
C2_QuotaErrorDegrades ==
    [][(/\ ~fallback_mode
        /\ SubmitStep
        /\ completion' # None
        /\ ~completion'.ok
        /\ QuotaRateText(completion'.text)) =>
          /\ fallback_mode'
          /\ NewMessages =
                <<HumanMessage(completion'.input),
                  AIMessage(get_rule_based_response(completion'.input))>>
      ]_vars

C2_Witness ==
    /\ event = "chat_input"
    /\ completion # None
    /\ ~completion.ok
    /\ completion.text = RateLimitReached
    /\ fallback_mode
    /\ LastAI = AIMessage(GreetingResponse)

C4_SubmitUsesAppliedModelAndPersona ==
    (event = "chat_input" /\ completion # None) =>
        /\ completion.model_name = model_name
        /\ completion.personality = personality

\* C5: "Clear Chat History" leaves the chat history empty and the fallback
\* mode off, and the model, the personality and the vector store as they were.
C5_ResetClearsHistoryAndFallback ==
    [][event' = "Clear Chat History" =>
          /\ chat_history' = <<>>
          /\ ~fallback_mode'
          /\ model_name' = model_name
          /\ personality' = personality
          /\ vectorstore' = vectorstore
      ]_vars

\* The chat was cleared with a model switched to and a knowledge base built.
C5_Witness ==
    /\ event = "Clear Chat History"
    /\ chat_history = <<>>
    /\ ~fallback_mode
    /\ model_name = "gpt-4o"
    /\ vectorstore # None
    /\ DOMAIN files # {}

\* C6: when "Save Current Chat" writes the chat history to its file, loading
\* that file gives the messages of the chat history: as many, of the same
\* types and contents, in the same order.
C6_SaveLoadRoundTrip ==
    [][(/\ event' = "Save Current Chat"
        /\ shown' = {}
        /\ chat_history # <<>>
        /\ clock' = clock) =>
          /\ clock \in DOMAIN files'
          /\ load_chat_history(files'[clock]) = chat_history
      ]_vars

\* A chat with a quoted word and a backslash was saved, and loads as it was.
C6_Witness ==
    /\ event = "Save Current Chat"
    /\ shown = {}
    /\ chat_history = <<HumanMessage(SayHi), AIMessage(EscapedN)>>
    /\ clock \in DOMAIN files
    /\ load_chat_history(files[clock]) = chat_history

\* The reply of the last chat input is rule-based: it was handled in fallback
\* mode, or turned the fallback mode on.
RuleBasedReply == event = "chat_input" /\ fallback_mode

\* C7 as claimed: the rule-based reply is the text of the first rule that
\* matches in the order greeting, gratitude, help request, "how are you",
\* question patterns, default.
C7_ClaimedRuleOrder ==
    RuleBasedReply => LastAI.content = ClaimedOrderResponse(LastHuman.content)

\* C7, amended: the rule-based reply is the text of the first rule that
\* matches in the order greeting, "how are you", help request, gratitude,
\* question words, question mark, default; a text with a word of thanks and
\* "help" in it gets the help response.
C7_RuleOrder ==
    RuleBasedReply =>
        LET user_input == LastHuman.content
            lower      == Lower(user_input)
            reply      == LastAI.content
            greeting   == AnyIn(Greetings, lower)
            howAreYou  == Contains(HowAreYou, lower)
            help       == Contains(Help, lower)
            gratitude  == AnyIn(Thanks, lower)
            qWord      == AnyIn(QWords, lower)
            qMark      == Contains(QMark, user_input)
        IN  /\ greeting => reply = GreetingResponse
            /\ (~greeting /\ howAreYou) => reply = HowAreYouResponse
            /\ (~greeting /\ ~howAreYou /\ help) => reply = HelpResponse
            /\ (~greeting /\ ~howAreYou /\ ~help /\ gratitude) => reply = ThanksResponse
            /\ (~greeting /\ ~howAreYou /\ ~help /\ ~gratitude /\ qWord)
                  => reply = QWordResponse(user_input)
            /\ (~greeting /\ ~howAreYou /\ ~help /\ ~gratitude /\ ~qWord /\ qMark)
                  => reply = QMarkResponse
            /\ (~greeting /\ ~howAreYou /\ ~help /\ ~gratitude /\ ~qWord /\ ~qMark)
                  => reply = DefaultResponse

\* A text with "thanks" and "help" in it got the help response.
C7_Witness ==
    /\ RuleBasedReply
    /\ AnyIn(Thanks, Lower(LastHuman.content))
    /\ Contains(Help, Lower(LastHuman.content))
    /\ LastAI.content = HelpResponse

AcceptedExtensions == {Pdf, Txt, Csv, Docx, Doc}
Accepted(name) == \E extension \in AcceptedExtensions : EndsWith(name, extension)
Range(seq) == {seq[i] : i \in 1..Len(seq)}
IsError(message) == message.level = "error"

\* C8 as claimed: "Process Documents" with a file of no accepted extension
\* among the files is rejected: a message names that file, and no vector
\* store is built from the other files (the file is not skipped while the
\* other files are ingested).
C8_UnsupportedFormatRejected ==
    [][(/\ event' = "Process Documents"
        /\ \E name \in Range(uploader) : ~Accepted(name)) =>
          /\ \A name \in Range(uploader) :
                ~Accepted(name) => \E message \in shown' : message.about = name
          /\ vectorstore' = vectorstore
      ]_vars

\* C8, amended: "Process Documents" skips a file of no accepted extension
\* (.pdf, .txt, .csv, .docx, .doc, in lower case) with the warning
\* "Unsupported file type ... Skipping." and no error for it, and goes on
\* with the other files: when these load and the embedding succeeds, the
\* vector store is built from exactly them, in their order.
C8_UnsupportedFormatSkipped ==
    [][event' = "Process Documents" =>
          LET kept == SelectSeq(uploader, Accepted) IN
          /\ \A name \in Range(uploader) :
                ~Accepted(name) =>
                   /\ Unsupported(name) \in shown'
                   /\ ~\E message \in shown' : IsError(message) /\ message.about = name
          /\ (/\ kept # <<>>
              /\ ErrorCreatingVectorDatabase \notin shown'
              /\ \A name \in Range(kept) : ErrorLoading(name) \notin shown')
                => vectorstore' = [documents |-> kept]
      ]_vars

\* A file was skipped and the vector store built from the other file.
C8_Witness ==
    /\ event = "Process Documents"
    /\ uploader = <<ReadmeMd, NotesTxt>>
    /\ Unsupported(ReadmeMd) \in shown
    /\ vectorstore = [documents |-> <<NotesTxt>>]

\* C9: when a chat input outside the fallback mode fails with an error that
\* is not of the quota / rate kind (the Completion Client raises it, or there
\* is no chain to ask), the fallback mode stays off, the error is shown, and
\* the chat history grows by the user's message and the fixed error reply.
C9_OtherErrorKeepsReady ==
    [][(/\ ~fallback_mode
        /\ SubmitStep
        /\ \/ conversation = None
           \/ (completion' # None /\ ~completion'.ok /\ ~QuotaRateText(completion'.text))) =>
          /\ ~fallback_mode'
          /\ \E message \in shown' : IsError(message) /\ message.text = "API error"
          /\ Len(NewMessages) = 2
          /\ NewMessages[1] \in {HumanMessage(user_input) : user_input \in UserTexts}
          /\ NewMessages[2] = AIMessage(ErrorResponse)
      ]_vars

C9_Witness ==
    /\ event = "chat_input"
    /\ completion # None
    /\ ~completion.ok
    /\ completion.text = ConnectionError
    /\ ~fallback_mode
    /\ LastAI = AIMessage(ErrorResponse)

\* C10: a chat input handled while fallback_mode is true appends two
\* messages, the user's message and the rule-based response to its text,
\* keeps what was in the chat history and leaves fallback_mode true; for
\* "hello" the response is the greeting.
C10_DegradedSubmitAppendsTwo ==
    [][(fallback_mode /\ SubmitStep) =>
          /\ fallback_mode'
          /\ IsPrefix(chat_history, chat_history')
          /\ Len(chat_history') = Len(chat_history) + 2
          /\ NewMessages[1].type = "HumanMessage"
          /\ NewMessages[2] = AIMessage(get_rule_based_response(NewMessages[1].content))
          /\ NewMessages[1].content = Hello => NewMessages[2].content = GreetingResponse
      ]_vars

\* After a quota error, "hello" was answered with the greeting in fallback mode.
C10_Witness ==
    /\ event = "chat_input"
    /\ fallback_mode
    /\ completion = None
    /\ Len(chat_history) = 4
    /\ chat_history[3] = HumanMessage(Hello)
    /\ chat_history[4] = AIMessage(GreetingResponse)

\* The files of the uploader that "Process Documents" loaded in this run:
\* those with a loader for which no "Error loading" is shown.
LoadedNow(name) == Accepted(name) /\ ErrorLoading(name) \notin shown'
LoadedDocuments == SelectSeq(uploader, LoadedNow)

\* The chain in use, if there is one, is built on the vector store of the
\* session.
ChainOnSessionStore(chain, store) == chain # None => chain.vectorstore = store

Recoveries == {"Try API Again", "Clear Chat History"}

\* C12: the fallback mode is sticky.  A step that starts with fallback_mode
\* true and is not "Try API Again" or "Clear Chat History" (a chat input, a
\* model or personality change, the building or clearing of the knowledge
\* base, a save, a load, an upload) ends with fallback_mode true; "Try API
\* Again" and "Clear Chat History" both end with fallback_mode false, and
\* are the only steps that turn it from true to false.
C12_FallbackSticky ==
    [][fallback_mode =>
          IF event' \in Recoveries THEN ~fallback_mode' ELSE fallback_mode'
      ]_vars

\* A quota error turned the fallback mode on ("hello" got the greeting of
\* the rules), then another model was applied: the fallback mode is still on.
C12_Witness ==
    /\ event = "Apply Model Change"
    /\ model_name = "gpt-4o"
    /\ fallback_mode
    /\ conversation # None
    /\ chat_history = <<HumanMessage(Hello), AIMessage(GreetingResponse)>>

\* C13: in every state in which fallback_mode is false there is a chain
\* (st.session_state.conversation is not None), and a chat input handled
\* while fallback_mode is false reaches the Completion Client; also when
\* initialize_rag_conversation returned None in "Process Documents", "Clear
\* Knowledge Base", a model or personality change or "Clear Chat History".
C13_ReadyHasConversation ==
    /\ [](~fallback_mode => conversation # None)
    /\ [][(~fallback_mode /\ SubmitStep) => completion' # None]_vars

=============================================================================
